---- MODULE Spec2Model ----
(***************************************************************************)
(* Streaming JSONL deduplication (nps-senti, src/preprocess).              *)
(*                                                                         *)
(* jsonl_dedup.cpp (dedup_file) and gdelt_dedup.cpp (main) contain the     *)
(* same normalizers, the same build_key and the same per-line loop, text   *)
(* for text; the definitions below are translated from jsonl_dedup.cpp     *)
(* and stand for both programs.                                            *)
(*                                                                         *)
(* Strings are sequences of byte values (unsigned char), so that           *)
(* std::isspace, std::tolower, size(), concatenation and std::to_string    *)
(* are computed the way the code computes them.                            *)
(***************************************************************************)
EXTENDS Integers, Sequences, FiniteSets, TLC

(***************************************************************************)
(* Bounds of the model                                                     *)
(***************************************************************************)
\* longest input stream explored under Spec
MaxLines == 3

(***************************************************************************)
(* Bytes and string literals of the source                                 *)
(***************************************************************************)
\* ' ' pushed by normalize_ascii_lower and trimmed afterwards
SPACE == 32
\* '/' stripped by normalize_urlish
SLASH == 47
\* '\n' written after every kept line
NEWLINE == 10
\* text_norm.size() < 80
ShortTextLimit == 80

\* "|url|"
STR_URL_SEP == <<124, 117, 114, 108, 124>>
\* "url|"
STR_URL_PREFIX == <<117, 114, 108, 124>>
\* "id|"
STR_ID_PREFIX == <<105, 100, 124>>
\* "line|"
STR_LINE_PREFIX == <<108, 105, 110, 101, 124>>

(***************************************************************************)
(* <cctype> in the default "C" locale (neither program calls setlocale)    *)
(***************************************************************************)
\* std::isspace(ch) != 0 : space, \t, \n, \v, \f, \r
isspace(ch) == ch \in {32, 9, 10, 11, 12, 13}

\* std::tolower(ch) : 'A'..'Z' -> 'a'..'z', every other byte unchanged
tolower(ch) == IF ch >= 65 /\ ch <= 90 THEN ch + 32 ELSE ch

(***************************************************************************)
(* std::to_string(std::size_t) : decimal digits, no sign, no padding       *)
(***************************************************************************)
RECURSIVE to_string(_)
to_string(n) ==
    IF n < 10 THEN <<48 + n>>
    ELSE Append(to_string(n \div 10), 48 + (n % 10))

(***************************************************************************)
(* normalize_ascii_lower                                                   *)
(***************************************************************************)
\* the for loop.  When byte i is handled, in_space holds exactly when byte
\* i-1 was whitespace (it is set by every whitespace byte, cleared by every
\* other byte, and starts false), so byte i pushes nothing when it and its
\* predecessor are whitespace, ' ' when it opens a whitespace run, and its
\* lowercase form otherwise.  NoByte marks "nothing pushed".
NoByte == 0 - 1

in_space(input, i) == i > 1 /\ isspace(input[i - 1])

\* fault variant: every whitespace byte pushed as a space of its own
Pushed_EveryBlank(input, i) ==
    IF isspace(input[i]) THEN SPACE ELSE tolower(input[i])

Pushed(input, i) ==
    IF isspace(input[i])
    THEN IF in_space(input, i) THEN NoByte ELSE SPACE
    ELSE tolower(input[i])

IsByte(c) == c # NoByte

CollapseLower(input) ==
    SelectSeq([i \in 1..Len(input) |-> Pushed(input, i)], IsByte)

\* while (!out.empty() && out.front() == ' ') out.erase(out.begin());
RECURSIVE TrimFront(_)
TrimFront(out) ==
    IF out # <<>> /\ Head(out) = SPACE THEN TrimFront(Tail(out)) ELSE out

\* while (!out.empty() && out.back() == ' ') out.pop_back();
RECURSIVE TrimBack(_)
TrimBack(out) ==
    IF out # <<>> /\ out[Len(out)] = SPACE
    THEN TrimBack(SubSeq(out, 1, Len(out) - 1))
    ELSE out

normalize_ascii_lower(input) ==
    TrimBack(TrimFront(CollapseLower(input)))

(***************************************************************************)
(* normalize_urlish                                                        *)
(***************************************************************************)
\* fault variant: one trailing slash removed, not all of them
StripSlashes_Once(url) ==
    IF url # <<>> /\ url[Len(url)] = SLASH
    THEN SubSeq(url, 1, Len(url) - 1)
    ELSE url

\* while (!url.empty() && url.back() == '/') url.pop_back();
RECURSIVE StripSlashes(_)
StripSlashes(url) ==
    IF url # <<>> /\ url[Len(url)] = SLASH
    THEN StripSlashes(SubSeq(url, 1, Len(url) - 1))
    ELSE url

normalize_urlish(url) ==
    StripSlashes([i \in 1..Len(url) |-> tolower(url[i])])

(***************************************************************************)
(* Input lines and nlohmann::json values                                   *)
(*                                                                         *)
(* A line read by std::getline is described by what the code can observe   *)
(* of it: whether it is empty, whether json::parse throws on it, whether   *)
(* the parsed value is an object, and the values found under the four      *)
(* inspected names.  `spelling` tells apart raw lines that differ as byte  *)
(* strings but parse to the same value (insignificant whitespace, member   *)
(* order, escapes).                                                        *)
(***************************************************************************)
\* record.find(name) == record.end()
Absent == [type |-> "absent", str |-> <<>>]
\* a member whose value is not a string (number, null, array, ...)
NonString == [type |-> "other", str |-> <<>>]
\* a member whose value is the string s
Str(s) == [type |-> "string", str |-> s]

\* line.empty()
EmptyLine ==
    [kind |-> "empty", spelling |-> 0,
     text |-> Absent, title |-> Absent, url |-> Absent, id |-> Absent]

\* a non-empty line on which json::parse throws
Malformed(sp) ==
    [kind |-> "malformed", spelling |-> sp,
     text |-> Absent, title |-> Absent, url |-> Absent, id |-> Absent]

\* a line holding valid JSON that is not an object (number, string, array...)
Scalar(sp) ==
    [kind |-> "scalar", spelling |-> sp,
     text |-> Absent, title |-> Absent, url |-> Absent, id |-> Absent]

\* a line holding a JSON object with these members
Object(sp, text, title, url, id) ==
    [kind |-> "object", spelling |-> sp,
     text |-> text, title |-> title, url |-> url, id |-> id]

\* json::parse(line) returned normally (the try block did not throw)
ParseOk(line) == line.kind \in {"object", "scalar"}

\* auto it = record.find(name); it != record.end() && it->is_string()
\* (find on a value that is not an object returns end())
IsStringMember(record, name) ==
    record.kind = "object" /\ record[name].type = "string"

(***************************************************************************)
(* build_key                                                               *)
(***************************************************************************)
\* fault variant: the threshold test written with <=
IsShortText_Inclusive(text_norm) == Len(text_norm) <= ShortTextLimit

\* text_norm.size() < 80
IsShortText(text_norm) == Len(text_norm) < ShortTextLimit

\* fault variant: the title rule tried before the text rule
build_key_TitleFirst(record) ==
    LET text_norm == IF IsStringMember(record, "text")
                     THEN normalize_ascii_lower(record.text.str) ELSE <<>>
        title_norm == IF IsStringMember(record, "title")
                      THEN normalize_ascii_lower(record.title.str) ELSE <<>>
        url_norm == IF IsStringMember(record, "url")
                    THEN normalize_urlish(record.url.str) ELSE <<>>
    IN  IF title_norm # <<>>
        THEN IF url_norm # <<>>
             THEN title_norm \o STR_URL_SEP \o url_norm
             ELSE title_norm
        ELSE IF text_norm # <<>>
        THEN IF IsShortText(text_norm) /\ url_norm # <<>>
             THEN text_norm \o STR_URL_SEP \o url_norm
             ELSE text_norm
        ELSE IF url_norm # <<>>
        THEN STR_URL_PREFIX \o url_norm
        ELSE IF IsStringMember(record, "id")
        THEN STR_ID_PREFIX \o record.id.str
        ELSE <<>>

build_key(record) ==
    LET text_norm == IF IsStringMember(record, "text")
                     THEN normalize_ascii_lower(record.text.str) ELSE <<>>
        title_norm == IF IsStringMember(record, "title")
                      THEN normalize_ascii_lower(record.title.str) ELSE <<>>
        url_norm == IF IsStringMember(record, "url")
                    THEN normalize_urlish(record.url.str) ELSE <<>>
    IN  IF text_norm # <<>>
        THEN IF IsShortText(text_norm) /\ url_norm # <<>>
             THEN text_norm \o STR_URL_SEP \o url_norm
             ELSE text_norm
        ELSE IF title_norm # <<>>
        THEN IF url_norm # <<>>
             THEN title_norm \o STR_URL_SEP \o url_norm
             ELSE title_norm
        ELSE IF url_norm # <<>>
        THEN STR_URL_PREFIX \o url_norm
        ELSE IF IsStringMember(record, "id")
        THEN STR_ID_PREFIX \o record.id.str
        ELSE <<>>

\* fault variant: the line number left out of the positional key
FallbackKey_NoNumber(total) == STR_LINE_PREFIX

\* key = "line|" + std::to_string(stats.total)
FallbackKey(total) == STR_LINE_PREFIX \o to_string(total)

\* std::string key = build_key(record); if (key.empty()) key = "line|" + ...
KeyFor(record, total) ==
    LET key == build_key(record)
    IN  IF key = <<>> THEN FallbackKey(total) ELSE key

(***************************************************************************)
(* State of one run of the loop                                            *)
(***************************************************************************)
VARIABLES
    input,      \* the lines std::getline has delivered so far, in order
    stats,      \* Stats
    seen_keys,  \* std::unordered_set<std::string> seen_keys
    out,        \* what has been written to the output stream
    pc          \* "loop" while getline succeeds, "done" after the loop

\* State of main() of jsonl_dedup.cpp and of the file system it runs on.
\* Under Spec and SpecPair, which explore the loop alone, these keep the
\* values of MainOff.
VARIABLES
    argv,           \* the command line
    fs_state,       \* which directories exist; state of the single input file
    mpc,            \* where main is
    run_all,        \* bool run_all
    input_dir,      \* fs::path input_dir
    output_dir,     \* fs::path output_dir
    call,           \* arguments of the dedup_file call being made
    total,          \* Stats total  (the run summary)
    processed_any,  \* bool processed_any
    exit_code,      \* value returned by main; NotExited while it runs
    results         \* the dedup_file calls made so far and what they did

loopvars == <<input, stats, seen_keys, out, pc>>

mainvars == <<argv, fs_state, mpc, run_all, input_dir, output_dir, call,
              total, processed_any, exit_code, results>>

vars == <<input, stats, seen_keys, out, pc,
          argv, fs_state, mpc, run_all, input_dir, output_dir, call,
          total, processed_any, exit_code, results>>

\* Stats stats;  (all counters value-initialised to 0)
ZeroStats ==
    [total |-> 0, parsed |-> 0, written |-> 0,
     duplicates |-> 0, parse_errors |-> 0, empty_lines |-> 0]

Init ==
    /\ input = <<>>
    /\ stats = ZeroStats
    /\ seen_keys = {}
    /\ out = <<>>
    /\ pc = "loop"

(***************************************************************************)
(* fs::path.  Directories are single names; a path is a directory, a       *)
(* file name split into stem and extension, or both.                       *)
(***************************************************************************)
\* fs::path{}  (empty() is true)
NoPath == [dir |-> "", stem |-> "", ext |-> ""]
\* a path naming a directory
DirPath(d) == [dir |-> d, stem |-> "", ext |-> ""]
\* a path naming the file stem+ext in directory d
FilePath(d, stem, ext) == [dir |-> d, stem |-> stem, ext |-> ext]
\* p.filename()
filename(p) == [dir |-> "", stem |-> p.stem, ext |-> p.ext]
\* p.parent_path()
parent_path(p) == [dir |-> p.dir, stem |-> "", ext |-> ""]
\* d / name
Slash(d, name) == [dir |-> d.dir, stem |-> name.stem, ext |-> name.ext]

\* exit_code while main has not returned
NotExited == 0 - 1

\* the variables of main while only the loop is explored
MainOff ==
    /\ argv = [form |-> "off", p1 |-> NoPath, p2 |-> NoPath]
    /\ fs_state = [dirs |-> {}, file |-> "ok"]
    /\ mpc = "off"
    /\ run_all = FALSE
    /\ input_dir = NoPath
    /\ output_dir = NoPath
    /\ call = [input_path |-> NoPath, output_path |-> NoPath, env |-> "ok"]
    /\ total = ZeroStats
    /\ processed_any = FALSE
    /\ exit_code = NotExited
    /\ results = <<>>

\* ++stats.total;
CountTotal(s) == [s EXCEPT !.total = @ + 1]
\* fault variant: an empty line handed to the parser and counted as an error
CountEmpty_AsParseError(s) == [s EXCEPT !.parse_errors = @ + 1]
\* ++stats.empty_lines;
CountEmpty(s) == [s EXCEPT !.empty_lines = @ + 1]
\* fault variant: parsed counted before the parse is known to succeed
CountParseError_AlsoParsed(s) ==
    [s EXCEPT !.parse_errors = @ + 1, !.parsed = @ + 1]
\* ++stats.parse_errors;
CountParseError(s) == [s EXCEPT !.parse_errors = @ + 1]
\* ++stats.parsed;
CountParsed(s) == [s EXCEPT !.parsed = @ + 1]
\* fault variant: a dropped line not counted
CountDuplicate_Lost(s) == s
\* ++stats.duplicates;
CountDuplicate(s) == [s EXCEPT !.duplicates = @ + 1]
\* fault variant: the written counter left alone
CountWritten_Forgotten(s) == s
\* ++stats.written;
CountWritten(s) == [s EXCEPT !.written = @ + 1]

\* fault variant: the result of the insertion ignored
Inserted_Always(key, seen) == TRUE

\* auto [_, inserted] = seen_keys.emplace(std::move(key));
\* inserted is true exactly when no equal key was in the set
Inserted(key, seen) == key \notin seen

\* fault variant: the parsed value written back in its canonical spelling
Emit_Reserialized(o, line) ==
    Append(o, <<[line EXCEPT !.spelling = 0], NEWLINE>>)

\* out << line << '\n';
Emit(o, line) == Append(o, <<line, NEWLINE>>)

\* One iteration of  while (std::getline(in, line)) { ... }  on `line`.
LoopBody(line) ==
    /\ pc = "loop"
    /\ input' = Append(input, line)
    /\ pc' = "loop"
    /\ LET s1 == CountTotal(stats)
       IN  IF line.kind = "empty"
           THEN /\ stats' = CountEmpty(s1)
                /\ UNCHANGED <<seen_keys, out>>
           ELSE IF ~ParseOk(line)
           THEN /\ stats' = CountParseError(s1)
                /\ UNCHANGED <<seen_keys, out>>
           ELSE LET s2 == CountParsed(s1)
                    key == KeyFor(line, s1.total)
                    inserted == Inserted(key, seen_keys)
                IN  /\ seen_keys' = seen_keys \cup {key}
                    /\ IF ~inserted
                       THEN /\ stats' = CountDuplicate(s2)
                            /\ out' = out
                       ELSE /\ stats' = CountWritten(s2)
                            /\ out' = Emit(out, line)

\* std::getline fails (end of file): the loop ends
EndOfStream ==
    /\ pc = "loop"
    /\ pc' = "done"
    /\ UNCHANGED <<input, stats, seen_keys, out>>
    /\ UNCHANGED mainvars

(***************************************************************************)
(* Input alphabets                                                         *)
(***************************************************************************)
\* "A"
STR_A == <<65>>
\* "LINE|2"
STR_LINE2 == <<76, 73, 78, 69, 124, 50>>
\* "x"
STR_X == <<120>>

\* Lines of the streams explored under Spec
StreamLines ==
    {EmptyLine, Scalar(0)}
    \cup {Malformed(sp) : sp \in {0, 1}}
    \cup {Object(sp, text, Absent, Absent, id) :
            sp \in {0, 1},
            text \in {Absent, Str(STR_A), Str(STR_LINE2)},
            id \in {Absent, Str(<<>>), Str(STR_X)}}

ReadLine ==
    /\ Len(input) < MaxLines
    /\ \E line \in StreamLines : LoopBody(line)
    /\ UNCHANGED mainvars

Next == ReadLine \/ EndOfStream

\* the loop alone: dedup_file entered, main's state idle
InitLoop == Init /\ MainOff

Spec == InitLoop /\ [][Next]_vars

(***************************************************************************)
(* Pairs of records: every combination of the field values below, read as  *)
(* a stream of at most two lines.  The text values sit on both sides of    *)
(* the short-text threshold, before and after normalization.               *)
(***************************************************************************)
\* n times the byte c
Rep(c, n) == [i \in 1..n |-> c]

\* " \t"
STR_BLANK == <<32, 9>>
\* "Ab"
STR_AB == <<65, 98>>
\* "T "
STR_T == <<84, 32>>
\* "/"
STR_SLASH == <<47>>
\* "U/"
STR_U == <<85, 47>>
\* "v"
STR_V == <<118>>

PairTexts ==
    {Absent, NonString, Str(STR_BLANK), Str(STR_AB),
     \* "aaa...a", one byte below the threshold
     Str(Rep(97, ShortTextLimit - 1)),
     \* "AAA...A ", at the threshold as written, below it once normalized
     Str(Append(Rep(65, ShortTextLimit - 1), SPACE)),
     \* "aaa...a", at the threshold
     Str(Rep(97, ShortTextLimit))}

PairTitles == {Absent, NonString, Str(STR_T)}

PairUrls == {Absent, Str(STR_SLASH), Str(STR_U), Str(STR_V)}

PairIds == {Absent, Str(<<>>), Str(STR_X)}

PairLines ==
    {Object(0, text, title, url, id) :
        text \in PairTexts, title \in PairTitles, url \in PairUrls, id \in PairIds}

ReadPairLine ==
    /\ Len(input) < 2
    /\ \E line \in PairLines : LoopBody(line)
    /\ UNCHANGED mainvars

NextPair == ReadPairLine \/ EndOfStream

SpecPair == InitLoop /\ [][NextPair]_vars

(***************************************************************************)
(* Streams of at most two lines whose text or url runs over every byte     *)
(* string up to MaxNormLen over a small alphabet, for the two normalizers. *)
(***************************************************************************)
MaxNormLen == 2

\* every string of at most n bytes over `alphabet`
StringsUpTo(alphabet, n) == UNION {[1..k -> alphabet] : k \in 0..n}

\* "Breaking News Today"
STR_BREAKING ==
    <<66, 114, 101, 97, 107, 105, 110, 103, 32, 78, 101, 119, 115, 32,
      84, 111, 100, 97, 121>>
\* "breaking   news today"
STR_BREAKING_WIDE ==
    <<98, 114, 101, 97, 107, 105, 110, 103, 32, 32, 32, 110, 101, 119, 115, 32,
      116, 111, 100, 97, 121>>
\* "breaking newstoday"
STR_BREAKING_JOINED ==
    <<98, 114, 101, 97, 107, 105, 110, 103, 32, 110, 101, 119, 115,
      116, 111, 100, 97, 121>>
\* "HTTP://X.com///"
STR_HTTP_X ==
    <<72, 84, 84, 80, 58, 47, 47, 88, 46, 99, 111, 109, 47, 47, 47>>

\* space, tab, 'A', 'a'
NormTexts ==
    StringsUpTo({32, 9, 65, 97}, MaxNormLen)
    \cup {STR_BREAKING, STR_BREAKING_WIDE, STR_BREAKING_JOINED}

\* 'A', '/'
NormUrls == StringsUpTo({65, 47}, MaxNormLen) \cup {STR_HTTP_X}

NormLines ==
    {Object(0, Str(t), Absent, url, Absent) :
        t \in NormTexts, url \in {Absent, Str(STR_U), Str(STR_V)}}
    \cup {Object(0, Absent, Absent, Str(u), Absent) : u \in NormUrls}

ReadNormLine ==
    /\ Len(input) < 2
    /\ \E line \in NormLines : LoopBody(line)
    /\ UNCHANGED mainvars

NextNorm == ReadNormLine \/ EndOfStream

SpecNorm == InitLoop /\ [][NextNorm]_vars

(***************************************************************************)
(* Streams of at most two records whose fields spell out, in one member,   *)
(* what a key rule builds from another member.                             *)
(***************************************************************************)
\* "t"
STR_T1 == <<116>>
\* "url|v"
STR_URL_V == <<117, 114, 108, 124, 118>>
\* "id|x"
STR_ID_X == <<105, 100, 124, 120>>
\* "t|url|v"
STR_T_URL_V == <<116, 124, 117, 114, 108, 124, 118>>

RuleLines ==
    {Object(0, text, title, url, id) :
        text \in {Absent, Str(STR_T1), Str(STR_URL_V), Str(STR_ID_X), Str(STR_T_URL_V)},
        title \in {Absent, Str(STR_T1)},
        url \in {Absent, Str(STR_V)},
        id \in {Absent, Str(STR_X)}}

ReadRuleLine ==
    /\ Len(input) < 2
    /\ \E line \in RuleLines : LoopBody(line)
    /\ UNCHANGED mainvars

NextRule == ReadRuleLine \/ EndOfStream

SpecRule == InitLoop /\ [][NextRule]_vars

(***************************************************************************)
(* main() of jsonl_dedup.cpp: argument handling, single-file mode and      *)
(* batch mode (--all), each running dedup_file with the loop above.        *)
(***************************************************************************)
\* most directory entries a batch run iterates over
MaxFiles == 2
\* longest file a run reads
MaxFileLines == 2

DATA_CRAWL == "data_crawl"
DATA_PREPROCESSED == "data_preprocessed"
DATA_PREPROCESSED_DEDUP == "data_preprocessed_dedup"
\* a directory named on the command line
WORK == "work"
\* ".jsonl"
EXT_JSONL == ".jsonl"

\* what the file system lets dedup_file do with one input/output pair:
\*   "missing"        fs::exists(input_path) is false
\*   "mkdir_fails"    create_directories(output_path.parent_path()) fails
\*   "unreadable"     the ifstream does not open
\*   "out_unwritable" the ofstream does not open
\*   "ok"             both streams open
FileEnvs == {"missing", "mkdir_fails", "unreadable", "out_unwritable", "ok"}

\* a directory entry that passed is_regular_file() exists, and the output
\* directory was created before the iteration
EntryEnvs == {"unreadable", "out_unwritable", "ok"}

\* command lines:  prog | prog --all [in_dir [out_dir]] | prog input [output]
\* (p1 = NoPath in the single form stands for an empty argv[1])
Argvs ==
    {[form |-> "none", p1 |-> NoPath, p2 |-> NoPath]}
    \cup {[form |-> "all", p1 |-> NoPath, p2 |-> NoPath]}
    \cup {[form |-> "all", p1 |-> DirPath(d1), p2 |-> p2] :
            d1 \in {DATA_PREPROCESSED, WORK},
            p2 \in {NoPath, DirPath(WORK)}}
    \cup {[form |-> "single", p1 |-> p1, p2 |-> p2] :
            p1 \in {NoPath, FilePath(WORK, "a", EXT_JSONL),
                    FilePath(DATA_CRAWL, "a", EXT_JSONL)},
            p2 \in {NoPath, FilePath(WORK, "a", EXT_JSONL),
                    FilePath(WORK, "b", EXT_JSONL)}}

\* lines of the files read under SpecMain
FileLines == {Object(0, Str(STR_A), Absent, Absent, Absent),
              Malformed(0)}

InitMain ==
    /\ input = <<>>
    /\ stats = ZeroStats
    /\ seen_keys = {}
    /\ out = <<>>
    /\ pc = "idle"
    /\ argv \in Argvs
    /\ fs_state \in [dirs : {{WORK} \cup S : S \in SUBSET {DATA_CRAWL, DATA_PREPROCESSED}},
                     file : FileEnvs]
    \* the state of the single input file matters in single-file mode only,
    \* and an existing file lies in an existing directory
    /\ argv.form # "single" => fs_state.file = "ok"
    /\ (argv.form = "single" /\ fs_state.file # "missing" /\ argv.p1 # NoPath)
          => argv.p1.dir \in fs_state.dirs
    /\ mpc = "start"
    /\ run_all = FALSE
    /\ input_dir = NoPath
    /\ output_dir = NoPath
    /\ call = [input_path |-> NoPath, output_path |-> NoPath, env |-> "ok"]
    /\ total = ZeroStats
    /\ processed_any = FALSE
    /\ exit_code = NotExited
    /\ results = <<>>

\* pick_default_input_dir
pick_default_input_dir(dirs) ==
    IF DATA_CRAWL \in dirs THEN DirPath(DATA_CRAWL)
    ELSE IF DATA_PREPROCESSED \in dirs THEN DirPath(DATA_PREPROCESSED)
    ELSE NoPath

\* default_output_dir_for
default_output_dir_for(in_dir) ==
    IF in_dir.dir = DATA_PREPROCESSED /\ in_dir.stem = ""
    THEN DirPath(DATA_PREPROCESSED_DEDUP)
    ELSE DirPath(DATA_PREPROCESSED)

\* paths_equivalent: fs::equivalent(a, b, ec) is true when both paths name
\* the same existing file, false otherwise (also on error); a is the single
\* input file here
paths_equivalent(a, b) == a = b /\ fs_state.file # "missing"

\* new_name = input_path.stem(); new_name += ".dedup";
\* new_name += input_path.extension(); input_path.parent_path() / new_name
RedirectedPath(input_path) ==
    Slash(parent_path(input_path),
          [dir |-> "", stem |-> input_path.stem \o ".dedup", ext |-> input_path.ext])

\* return <code>;  from main
Exit(code) ==
    /\ mpc' = "exit"
    /\ exit_code' = code

\* main, from its entry up to the call of dedup_file (single-file mode) or
\* up to the directory checks (batch mode)
MainStart ==
    /\ mpc = "start"
    /\ UNCHANGED <<loopvars, argv, fs_state, total, processed_any, results>>
    /\ LET dflt == pick_default_input_dir(fs_state.dirs)
           dflt_out == default_output_dir_for(dflt)
       IN  IF dflt = NoPath
           THEN /\ Exit(1)
                /\ UNCHANGED <<run_all, input_dir, output_dir, call>>
           ELSE IF argv.form \in {"none", "all"}
           THEN /\ run_all' = TRUE
                /\ input_dir' = IF argv.p1 # NoPath THEN argv.p1 ELSE dflt
                /\ output_dir' = IF argv.p2 # NoPath THEN argv.p2 ELSE dflt_out
                /\ mpc' = "batch"
                /\ UNCHANGED <<call, exit_code>>
           ELSE /\ run_all' = FALSE
                /\ input_dir' = dflt
                /\ output_dir' = dflt_out
                /\ IF argv.p1 = NoPath
                   THEN /\ Exit(1)
                        /\ call' = call
                   ELSE LET input_path == argv.p1
                            out_name == IF filename(input_path) = NoPath
                                        THEN [dir |-> "", stem |-> "deduped", ext |-> EXT_JSONL]
                                        ELSE filename(input_path)
                            output_path == IF argv.p2 = NoPath
                                           THEN Slash(dflt_out, out_name)
                                           ELSE argv.p2
                        IN  /\ call' = [input_path |-> input_path,
                                        output_path |->
                                            IF paths_equivalent(input_path, output_path)
                                            THEN RedirectedPath(input_path)
                                            ELSE output_path,
                                        env |-> fs_state.file]
                            /\ mpc' = "call"
                            /\ exit_code' = exit_code

\* if (run_all) { directory checks; Stats total; bool processed_any = false;
BatchSetup ==
    /\ mpc = "batch"
    /\ UNCHANGED <<loopvars, argv, run_all, input_dir, output_dir, call, results>>
    /\ IF input_dir.dir \notin fs_state.dirs
       THEN /\ Exit(1)
            /\ UNCHANGED <<fs_state, total, processed_any>>
       ELSE \E created \in BOOLEAN :
              \* create_directories succeeds on a directory that exists
              /\ output_dir.dir \in fs_state.dirs => created
              /\ IF ~created
                 THEN /\ Exit(1)
                      /\ UNCHANGED <<fs_state, total, processed_any>>
                 ELSE /\ fs_state' = [fs_state EXCEPT !.dirs = @ \cup {output_dir.dir}]
                      /\ total' = ZeroStats
                      /\ processed_any' = FALSE
                      /\ mpc' = "dir"
                      /\ exit_code' = exit_code

\* one record of `results`
CallRecord(called, c, in_opened, out_opened, success, st, inp, o) ==
    [called |-> called, input_path |-> c.input_path, output_path |-> c.output_path,
     env |-> c.env, in_opened |-> in_opened, out_opened |-> out_opened,
     success |-> success, stats |-> st, input |-> inp, out |-> o]

\* a directory entry the loop passes over (not a regular file, or not .jsonl)
SkippedRecord ==
    CallRecord(FALSE, [input_path |-> NoPath, output_path |-> NoPath, env |-> "ok"],
               FALSE, FALSE, FALSE, ZeroStats, <<>>, <<>>)

\* the name of the k-th directory entry
EntryName(k) == [dir |-> "", stem |-> "f" \o ToString(k), ext |-> EXT_JSONL]

\* for (const auto& entry : fs::directory_iterator(input_dir)) { ... up to
\* the call  dedup_file(entry.path(), out_path)
DirEntry ==
    /\ mpc = "dir"
    /\ Len(results) < MaxFiles
    /\ UNCHANGED <<loopvars, argv, fs_state, run_all, input_dir, output_dir,
                   total, exit_code>>
    /\ \E is_jsonl \in BOOLEAN :
          IF ~is_jsonl
          THEN /\ results' = Append(results, SkippedRecord)
               /\ UNCHANGED <<mpc, call, processed_any>>
          ELSE \E env \in EntryEnvs :
                 /\ processed_any' = TRUE
                 /\ call' = [input_path |-> Slash(input_dir, EntryName(Len(results) + 1)),
                             output_path |-> Slash(output_dir, EntryName(Len(results) + 1)),
                             env |-> env]
                 /\ mpc' = "call"
                 /\ results' = results

\* total.x += result.stats.x  for the six counters
AddStats(t, st) ==
    [total |-> t.total + st.total, parsed |-> t.parsed + st.parsed,
     written |-> t.written + st.written, duplicates |-> t.duplicates + st.duplicates,
     parse_errors |-> t.parse_errors + st.parse_errors,
     empty_lines |-> t.empty_lines + st.empty_lines]

\* fault variant: a failed file ends the batch run
ReturnToMain_AbortOnFailure(r) ==
    /\ results' = Append(results, r)
    /\ total' = IF r.success /\ run_all THEN AddStats(total, r.stats) ELSE total
    /\ IF run_all /\ r.success
       THEN /\ mpc' = "dir"
            /\ exit_code' = exit_code
       ELSE Exit(IF r.success THEN 0 ELSE 1)

\* what main does with the DedupResult r: in batch mode print, skip a failed
\* file, add the statistics of a successful one and go on with the next
\* entry; in single-file mode return result.success ? 0 : 1
ReturnToMain(r) ==
    /\ results' = Append(results, r)
    /\ IF run_all
       THEN /\ mpc' = "dir"
            /\ total' = IF r.success THEN AddStats(total, r.stats) ELSE total
            /\ exit_code' = exit_code
       ELSE /\ Exit(IF r.success THEN 0 ELSE 1)
            /\ total' = total

\* fault variant: the set declared static, shared by all calls
LocalSeenKeys_Static(left_behind) == left_behind

\* std::unordered_set<std::string> seen_keys;  a local of dedup_file, built
\* empty on every call whatever an earlier call left behind
LocalSeenKeys(left_behind) == {}

\* dedup_file from its entry to the first getline: the checks that return
\* {stats, false}, or both streams open and the locals initialised
DedupFileOpen ==
    /\ mpc = "call"
    /\ UNCHANGED <<argv, fs_state, run_all, input_dir, output_dir, call, processed_any>>
    /\ IF call.env = "missing"
       THEN /\ ReturnToMain(CallRecord(TRUE, call, FALSE, FALSE, FALSE, ZeroStats, <<>>, <<>>))
            /\ UNCHANGED loopvars
       ELSE IF call.env = "mkdir_fails" /\ call.output_path.dir # ""
       THEN /\ ReturnToMain(CallRecord(TRUE, call, FALSE, FALSE, FALSE, ZeroStats, <<>>, <<>>))
            /\ UNCHANGED loopvars
       ELSE IF call.env = "unreadable"
       THEN /\ ReturnToMain(CallRecord(TRUE, call, FALSE, FALSE, FALSE, ZeroStats, <<>>, <<>>))
            /\ UNCHANGED loopvars
       ELSE IF call.env = "out_unwritable"
       THEN /\ ReturnToMain(CallRecord(TRUE, call, TRUE, FALSE, FALSE, ZeroStats, <<>>, <<>>))
            /\ UNCHANGED loopvars
       ELSE /\ input' = <<>>
            /\ stats' = ZeroStats
            /\ seen_keys' = LocalSeenKeys(seen_keys)
            /\ out' = <<>>
            /\ pc' = "loop"
            /\ mpc' = "file"
            /\ UNCHANGED <<total, exit_code, results>>

\* one iteration of the loop inside dedup_file.  When the output path names
\* the input file itself, opening the ofstream has truncated it and getline
\* delivers nothing.
ReadFileLine ==
    /\ mpc = "file"
    /\ Len(input) < MaxFileLines
    /\ call.input_path # call.output_path
    /\ \E line \in FileLines : LoopBody(line)
    /\ UNCHANGED mainvars

\* getline fails; return {stats, true};
FileReturn ==
    /\ mpc = "file"
    /\ pc = "loop"
    /\ pc' = "done"
    /\ UNCHANGED <<input, stats, seen_keys, out>>
    /\ UNCHANGED <<argv, fs_state, run_all, input_dir, output_dir, call, processed_any>>
    /\ ReturnToMain(CallRecord(TRUE, call, TRUE, TRUE, TRUE, stats, input, out))

\* after the directory loop: no .jsonl file -> return 1; else summary, return 0
BatchEnd ==
    /\ mpc = "dir"
    /\ Exit(IF processed_any THEN 0 ELSE 1)
    /\ UNCHANGED <<loopvars, argv, fs_state, run_all, input_dir, output_dir, call,
                   total, processed_any, results>>

NextMain ==
    \/ MainStart
    \/ BatchSetup
    \/ DirEntry
    \/ DedupFileOpen
    \/ ReadFileLine
    \/ FileReturn
    \/ BatchEnd

SpecMain == InitMain /\ [][NextMain]_vars

(***************************************************************************)
(* Vocabulary of the properties                                            *)
(***************************************************************************)
\* "line|2", "line|3"
KEY_LINE2 == <<108, 105, 110, 101, 124, 50>>
KEY_LINE3 == <<108, 105, 110, 101, 124, 51>>

\* positions of the lines that parsed
ParsedIdx == {i \in 1..Len(input) : ParseOk(input[i])}

\* the dedup key of the i-th line (stats.total is i while line i is handled)
LineKey(i) == KeyFor(input[i], i)

\* parsed lines with no earlier parsed line of the same key
FirstIdx ==
    {i \in ParsedIdx : \A j \in ParsedIdx : j < i => LineKey(j) # LineKey(i)}

\* the lines written so far, without their terminators
OutLines == [k \in 1..Len(out) |-> out[k][1]]

\* the last line read
LastLine(inp) == inp[Len(inp)]

\* this step read one more line
ReadsOne == Len(input') = Len(input) + 1

\* a parsed line that has none of text, title, url, id
Fieldless(line) ==
    /\ ParseOk(line)
    /\ \A name \in {"text", "title", "url", "id"} : line[name].type = "absent"

\* "line|N"
PositionalKey(n) == STR_LINE_PREFIX \o to_string(n)

\* normalized text / title / url of a record as the key rules read them
TextNorm(r) ==
    IF r.kind = "object" /\ r.text.type = "string"
    THEN normalize_ascii_lower(r.text.str) ELSE <<>>
TitleNorm(r) ==
    IF r.kind = "object" /\ r.title.type = "string"
    THEN normalize_ascii_lower(r.title.str) ELSE <<>>
UrlNorm(r) ==
    IF r.kind = "object" /\ r.url.type = "string"
    THEN normalize_urlish(r.url.str) ELSE <<>>

\* s is a subsequence of t
RECURSIVE IsSubseqFrom(_, _, _, _)
IsSubseqFrom(s, i, t, j) ==
    IF i > Len(s) THEN TRUE
    ELSE IF j > Len(t) THEN FALSE
    ELSE IF s[i] = t[j] THEN IsSubseqFrom(s, i + 1, t, j + 1)
    ELSE IsSubseqFrom(s, i, t, j + 1)

(***************************************************************************)
(* C1  After every processed line and at end of stream:                    *)
(*     total = parsed + parse_errors + empty_lines  and                    *)
(*     parsed = written + duplicates.                                      *)
(***************************************************************************)
C1_CounterIdentities ==
    /\ stats.total = stats.parsed + stats.parse_errors + stats.empty_lines
    /\ stats.parsed = stats.written + stats.duplicates

\* a finished stream holding a malformed line, a kept line and a duplicate
C1_Witness ==
    /\ pc = "done"
    /\ stats.total = 3
    /\ stats.parse_errors = 1
    /\ stats.written = 1
    /\ stats.duplicates = 1

(***************************************************************************)
(* C2  A parsed line is written iff no earlier parsed line of the stream   *)
(*     has the same key (derived, or positional when none is derivable);   *)
(*     otherwise it is counted as a duplicate and dropped.  Hence the      *)
(*     output is exactly the first occurrences, in order, their keys are   *)
(*     pairwise distinct and every key seen is represented once.           *)
(***************************************************************************)
C2_FirstOccurrencesWritten ==
    LET IsFirst(i) == i \in FirstIdx
        firsts == SelectSeq([i \in 1..Len(input) |-> i], IsFirst)
    IN  /\ OutLines = [k \in 1..Len(firsts) |-> input[firsts[k]]]
        /\ stats.written = Cardinality(FirstIdx)
        /\ stats.duplicates = Cardinality(ParsedIdx \ FirstIdx)
        /\ seen_keys = {LineKey(i) : i \in ParsedIdx}
        /\ Cardinality(seen_keys) = Len(out)

\* two kept lines of different keys and one dropped repeat of the first key
C2_Witness ==
    /\ Len(input) = 3
    /\ ParsedIdx = {1, 2, 3}
    /\ LineKey(1) # LineKey(2)
    /\ LineKey(3) = LineKey(1)
    /\ input[3] # input[1]
    /\ stats.written = 2
    /\ stats.duplicates = 1

(***************************************************************************)
(* C3  The written lines are a subsequence of the input lines, and each    *)
(*     is the raw input line, unchanged, followed by one newline.          *)
(***************************************************************************)
C3_OutputIsSubsequence ==
    /\ IsSubseqFrom(OutLines, 1, input, 1)
    /\ \A k \in 1..Len(out) : Len(out[k]) = 2 /\ out[k][2] = NEWLINE

\* a kept line in its second spelling, after a line that was not kept
C3_Witness ==
    /\ Len(input) = 3
    /\ Len(out) = 2
    /\ ~ParseOk(input[1])
    /\ out[1][1].spelling = 1
    /\ out[2][1] = input[3]

(***************************************************************************)
(* C4  A parsed record for which no key is derivable gets a fallback       *)
(*     identity unique in its stream and is always written, never counted  *)
(*     as a duplicate, whatever records precede it.                        *)
(***************************************************************************)
C4_KeylessAlwaysWritten ==
    [][(ReadsOne /\ ParseOk(LastLine(input')) /\ build_key(LastLine(input')) = <<>>)
         => /\ stats'.duplicates = stats.duplicates
            /\ stats'.written = stats.written + 1
            /\ out' = Append(out, <<LastLine(input'), NEWLINE>>)]_vars

(***************************************************************************)
(* C5  Two parsed records that lack text, title, url and id entirely get   *)
(*     distinct keys "line|N", N the 1-based physical line number (empty   *)
(*     and malformed lines counted), so neither is a duplicate of the      *)
(*     other.                                                              *)
(***************************************************************************)
C5_FieldlessDistinctPositional ==
    LET bare == {i \in 1..Len(input) : Fieldless(input[i])}
    IN  /\ \A i \in bare : LineKey(i) = PositionalKey(i)
        /\ \A i \in bare : PositionalKey(i) \in seen_keys
        /\ \A i, j \in bare : i # j => LineKey(i) # LineKey(j)
        /\ (ParsedIdx = bare) =>
              /\ stats.duplicates = 0
              /\ stats.written = Cardinality(bare)
              /\ seen_keys = {PositionalKey(i) : i \in bare}

\* an empty line, then two identical field-less records, both kept
C5_Witness ==
    /\ Len(input) = 3
    /\ input[1].kind = "empty"
    /\ Fieldless(input[2])
    /\ input[3] = input[2]
    /\ stats.written = 2
    /\ seen_keys = {KEY_LINE2, KEY_LINE3}

(***************************************************************************)
(* C6  Short-text disambiguation, threshold 80.  Two records with the      *)
(*     same normalized text shorter than 80 and different non-empty        *)
(*     normalized urls get different keys and, alone in a stream, are      *)
(*     both written; two records with the same normalized text of length   *)
(*     80 or more get the same key whatever their urls, and the second is  *)
(*     a duplicate.  At length 79 the url is part of the key, at length    *)
(*     80 it is not.                                                       *)
(***************************************************************************)
C6_ShortTextDisambiguation ==
    /\ (Len(input) >= 1 /\ TextNorm(input[1]) # <<>>) =>
          LET t == TextNorm(input[1])
              u == UrlNorm(input[1])
          IN  /\ (Len(t) = 79 /\ u # <<>> /\ Len(input) = 1)
                    => seen_keys = {t \o STR_URL_SEP \o u}
              /\ (Len(t) = 80 /\ Len(input) = 1) => seen_keys = {t}
    /\ (Len(input) = 2 /\ TextNorm(input[1]) # <<>>
                       /\ TextNorm(input[1]) = TextNorm(input[2])) =>
          LET t == TextNorm(input[1])
              u1 == UrlNorm(input[1])
              u2 == UrlNorm(input[2])
          IN  /\ (Len(t) < 80 /\ u1 # <<>> /\ u2 # <<>> /\ u1 # u2) =>
                    /\ Cardinality(seen_keys) = 2
                    /\ stats.written = 2
                    /\ stats.duplicates = 0
                    /\ OutLines = input
              /\ (Len(t) >= 80) =>
                    /\ seen_keys = {t}
                    /\ stats.written = 1
                    /\ stats.duplicates = 1
                    /\ OutLines = <<input[1]>>

\* two 79-byte texts, equal once normalized, under different urls: both kept
C6_Witness ==
    /\ Len(input) = 2
    /\ input[1].text.str # input[2].text.str
    /\ Len(input[2].text.str) = 80
    /\ Len(TextNorm(input[1])) = 79
    /\ TextNorm(input[1]) = TextNorm(input[2])
    /\ UrlNorm(input[1]) = <<117>>
    /\ UrlNorm(input[2]) = <<118>>
    /\ stats.written = 2

(***************************************************************************)
(* C7  The id rule applies only to a non-empty string id: a record with    *)
(*     no usable text, title or url whose id is "" yields no key and gets  *)
(*     the positional key, so two such records at different lines are      *)
(*     both written.                                                       *)
(***************************************************************************)
C7_EmptyIdFallsBack ==
    LET EmptyId(line) ==
            /\ line.kind = "object"
            /\ TextNorm(line) = <<>> /\ TitleNorm(line) = <<>> /\ UrlNorm(line) = <<>>
            /\ line.id = Str(<<>>)
    IN  (ParsedIdx # {} /\ \A i \in ParsedIdx : EmptyId(input[i])) =>
            /\ stats.duplicates = 0
            /\ stats.written = Cardinality(ParsedIdx)
            /\ seen_keys = {PositionalKey(i) : i \in ParsedIdx}

(***************************************************************************)
(* C8  build_key takes the first rule that matches, in the order text,     *)
(*     title, url, id.  With non-empty normalized text the key depends     *)
(*     only on text (and on url when the text is short), never on title    *)
(*     or id.  With text absent, non-string or empty once normalized and   *)
(*     a non-empty normalized title, the key is title|url|url when a       *)
(*     non-empty normalized url exists and the title alone otherwise.      *)
(*     With neither usable and a non-empty normalized url it is url|url.   *)
(***************************************************************************)
C8_PriorityOrder ==
    /\ (Len(input) = 1 /\ input[1].kind = "object") =>
          LET t == TextNorm(input[1])
              h == TitleNorm(input[1])
              u == UrlNorm(input[1])
          IN  /\ (t # <<>>) =>
                    seen_keys \in {{t}, {t \o STR_URL_SEP \o u}}
              /\ (t # <<>> /\ (Len(t) >= 80 \/ u = <<>>)) => seen_keys = {t}
              /\ (t # <<>> /\ Len(t) < 80 /\ u # <<>>) =>
                    seen_keys = {t \o STR_URL_SEP \o u}
              /\ (t = <<>> /\ h # <<>> /\ u # <<>>) =>
                    seen_keys = {h \o STR_URL_SEP \o u}
              /\ (t = <<>> /\ h # <<>> /\ u = <<>>) => seen_keys = {h}
              /\ (t = <<>> /\ h = <<>> /\ u # <<>>) =>
                    seen_keys = {STR_URL_PREFIX \o u}
    /\ (Len(input) = 2 /\ input[1].kind = "object" /\ input[2].kind = "object"
          /\ TextNorm(input[1]) # <<>>
          /\ TextNorm(input[1]) = TextNorm(input[2])
          /\ UrlNorm(input[1]) = UrlNorm(input[2])) =>
             /\ Cardinality(seen_keys) = 1
             /\ stats.duplicates = 1

\* whitespace-only text, title "T " and url "U/": the key is "t|url|u"
C8_Witness ==
    /\ Len(input) = 1
    /\ input[1].text = Str(STR_BLANK)
    /\ input[1].title = Str(STR_T)
    /\ input[1].url = Str(STR_U)
    /\ input[1].id = Str(STR_X)
    /\ seen_keys = {<<116, 124, 117, 114, 108, 124, 117>>}

(***************************************************************************)
(* C9  A line that fails to parse never aborts the stream: it adds one to  *)
(*     total and to parse_errors and changes nothing else, the loop goes   *)
(*     on, and total equals the number of input lines at every point,      *)
(*     the end of the stream included.                                     *)
(***************************************************************************)
C9_ParseErrorIsLocal ==
    /\ [](stats.total = Len(input))
    /\ [][(ReadsOne /\ LastLine(input').kind = "malformed") =>
            /\ stats' = [stats EXCEPT !.total = @ + 1, !.parse_errors = @ + 1]
            /\ seen_keys' = seen_keys
            /\ out' = out
            /\ pc' = "loop"]_vars

\* a finished stream of three lines whose first two were malformed and
\* whose third was still read and kept
C9_Witness ==
    /\ pc = "done"
    /\ Len(input) = 3
    /\ input[1].kind = "malformed"
    /\ input[2].kind = "malformed"
    /\ stats.total = 3
    /\ stats.parse_errors = 2
    /\ OutLines = <<input[3]>>

(***************************************************************************)
(* C10 An empty line adds one to total and to empty_lines and changes      *)
(*     nothing else: it is no parse error and no duplicate, it never       *)
(*     appears in the output and the observed-key set stays as it was.     *)
(***************************************************************************)
C10_EmptyLineFrame ==
    /\ [](\A k \in 1..Len(out) : out[k][1].kind # "empty")
    /\ [](stats.empty_lines =
            Cardinality({i \in 1..Len(input) : input[i].kind = "empty"}))
    /\ [][(ReadsOne /\ LastLine(input').kind = "empty") =>
            /\ stats' = [stats EXCEPT !.total = @ + 1, !.empty_lines = @ + 1]
            /\ seen_keys' = seen_keys
            /\ out' = out]_vars

\* an empty line between two kept records
C10_Witness ==
    /\ Len(input) = 3
    /\ input[2].kind = "empty"
    /\ stats.empty_lines = 1
    /\ stats.parse_errors = 0
    /\ stats.duplicates = 0
    /\ OutLines = <<input[1], input[3]>>

(***************************************************************************)
(* Vocabulary of the properties about main                                 *)
(***************************************************************************)
\* what one stream, read alone from an empty observed-key set, keeps
ParsedIdxOf(inp) == {i \in 1..Len(inp) : ParseOk(inp[i])}

FirstIdxOf(inp) ==
    {i \in ParsedIdxOf(inp) :
        \A j \in ParsedIdxOf(inp) : j < i => KeyFor(inp[j], j) # KeyFor(inp[i], i)}

KeptAlone(inp) ==
    LET IsFirst(i) == i \in FirstIdxOf(inp)
        firsts == SelectSeq([i \in 1..Len(inp) |-> i], IsFirst)
    IN  [k \in 1..Len(firsts) |-> <<inp[firsts[k]], NEWLINE>>]

StatsAlone(inp) ==
    [total |-> Len(inp),
     parsed |-> Cardinality(ParsedIdxOf(inp)),
     written |-> Cardinality(FirstIdxOf(inp)),
     duplicates |-> Cardinality(ParsedIdxOf(inp) \ FirstIdxOf(inp)),
     parse_errors |-> Cardinality({i \in 1..Len(inp) : inp[i].kind = "malformed"}),
     empty_lines |-> Cardinality({i \in 1..Len(inp) : inp[i].kind = "empty"})]

\* the dedup_file calls made so far
Calls == {k \in 1..Len(results) : results[k].called}

(***************************************************************************)
(* C11 In batch mode each file is deduplicated against its own observed-   *)
(*     key set, empty at its start: no record is a duplicate because of a  *)
(*     record of another file, and the kept lines and statistics of each   *)
(*     file are those of processing it alone, whatever was processed       *)
(*     before it.                                                          *)
(***************************************************************************)
C11_FilesIndependent ==
    /\ \A k \in Calls :
          results[k].success =>
             /\ results[k].out = KeptAlone(results[k].input)
             /\ results[k].stats = StatsAlone(results[k].input)
    /\ mpc = "file" =>
          /\ seen_keys = {KeyFor(input[i], i) : i \in ParsedIdxOf(input)}
          /\ out = KeptAlone(input)
          /\ stats = StatsAlone(input)

\* a batch run whose second file repeats the record of the first, kept in both
C11_Witness ==
    /\ run_all
    /\ Len(results) = 2
    /\ results[1].success /\ results[2].success
    /\ results[1].input # <<>>
    /\ results[2].input = results[1].input
    /\ results[1].stats.written = 1
    /\ results[2].stats.written = 1
    /\ results[2].stats.duplicates = 0

(***************************************************************************)
(* C12 Whenever the resolved output path of an input file is that file     *)
(*     itself, the output goes to another path: no run, in single-file or  *)
(*     batch mode (--all with the same input and output directory          *)
(*     included), opens an input file for writing as its own output.       *)
(***************************************************************************)
C12_NeverWritesOntoInput ==
    /\ mpc = "file" => call.output_path # call.input_path
    /\ \A k \in Calls :
          results[k].out_opened => results[k].output_path # results[k].input_path

(***************************************************************************)
(* C13 The process exits with status 0 only if at least one input stream   *)
(*     was located and successfully opened for processing; a batch run in  *)
(*     which every candidate .jsonl file fails at engine level exits with  *)
(*     a non-zero status.                                                  *)
(***************************************************************************)
C13_ZeroExitNeedsOpenedStream ==
    exit_code = 0 => \E k \in Calls : results[k].success

(***************************************************************************)
(* C14 An engine-level failure of a stream is reported as success = false, *)
(*     distinct from a processed stream of zero lines (success = true,     *)
(*     all-zero statistics); in batch mode it does not stop the remaining  *)
(*     files, and the run summary is the field-wise sum of the statistics  *)
(*     of exactly the files that succeeded.                                *)
(***************************************************************************)
RECURSIVE SumSucceeded(_, _)
SumSucceeded(field, n) ==
    IF n = 0 THEN 0
    ELSE SumSucceeded(field, n - 1)
         + (IF results[n].success THEN results[n].stats[field] ELSE 0)

C14_Outcomes ==
    /\ \A k \in Calls :
          /\ results[k].success <=> (results[k].in_opened /\ results[k].out_opened)
          /\ results[k].env \in {"missing", "unreadable", "out_unwritable"}
                => ~results[k].success
          /\ (results[k].success /\ results[k].input = <<>>)
                => results[k].stats = ZeroStats
    /\ (run_all /\ mpc \in {"dir", "call", "file", "exit"}) =>
          \A field \in DOMAIN ZeroStats :
             total[field] = SumSucceeded(field, Len(results))

\* the step in which a batch run gets a failed result back: the directory
\* loop goes on as after a processed file, main does not return, and the
\* summary is left as it was
C14_FailedFileStep ==
    (/\ run_all
     /\ Len(results') = Len(results) + 1
     /\ results'[Len(results')].called
     /\ ~results'[Len(results')].success)
        => /\ mpc' = "dir"
           /\ exit_code' = NotExited
           /\ total' = total

C14_FailureDistinctAndLocal ==
    []C14_Outcomes /\ [][C14_FailedFileStep]_vars

\* a failed file, then a processed file with a malformed and a kept line,
\* then the end of the run with the summary of the second file alone
C14_Witness ==
    /\ run_all
    /\ mpc = "exit"
    /\ Len(results) = 2
    /\ results[1].called /\ ~results[1].success
    /\ results[2].success
    /\ results[2].stats.parse_errors = 1
    /\ results[2].stats.written = 1
    /\ total = results[2].stats

(***************************************************************************)
(* C15 Both normalizers are idempotent: normalizing a normalized string    *)
(*     returns it unchanged; and normalize_urlish removes all trailing '/' *)
(*     so its result never ends in '/' ("HTTP://X.com///" becomes          *)
(*     "http://x.com"; a url of slashes only becomes empty and counts as   *)
(*     no url).                                                            *)
(***************************************************************************)
\* "http://x.com"
STR_HTTP_X_NORM == <<104, 116, 116, 112, 58, 47, 47, 120, 46, 99, 111, 109>>

OnlySlashes(u) == u # <<>> /\ \A k \in 1..Len(u) : u[k] = 47

C15_NormalizersIdempotent ==
    \A i \in 1..Len(input) :
       LET r == input[i] IN
       /\ r.text.type = "string" =>
             /\ normalize_ascii_lower(TextNorm(r)) = TextNorm(r)
             \* the key entered for a text-only line is a fixed point
             /\ (r.url.type = "absent" /\ TextNorm(r) # <<>>) =>
                   /\ LineKey(i) \in seen_keys
                   /\ normalize_ascii_lower(LineKey(i)) = LineKey(i)
       /\ r.url.type = "string" =>
             /\ normalize_urlish(UrlNorm(r)) = UrlNorm(r)
             /\ UrlNorm(r) = <<>> \/ UrlNorm(r)[Len(UrlNorm(r))] # 47
             /\ r.url.str = STR_HTTP_X => UrlNorm(r) = STR_HTTP_X_NORM
             /\ OnlySlashes(r.url.str) =>
                   /\ UrlNorm(r) = <<>>
                   \* no url: a record with nothing else gets the positional key
                   /\ r.text.type = "absent" => LineKey(i) = PositionalKey(i)

\* the example url read, then a url of slashes only kept under line|2
C15_Witness ==
    /\ Len(input) = 2
    /\ input[1].url.str = STR_HTTP_X
    /\ STR_URL_PREFIX \o STR_HTTP_X_NORM \in seen_keys
    /\ input[2].url.str = <<47, 47>>
    /\ PositionalKey(2) \in seen_keys

(***************************************************************************)
(* C16 Two records whose text values differ only in ASCII letter case, in  *)
(*     the length or kind of whitespace runs, or in leading/trailing       *)
(*     whitespace (and which have the same url or no url) receive the same *)
(*     key, so in one stream the later one is classified as a duplicate    *)
(*     and only the first is written (written count 1 for the two lines    *)
(*     {"text":"Breaking News Today"}, {"text":"breaking   news today"}).  *)
(***************************************************************************)
IsBlank(c) == c \in 9..13 \/ c = 32
FoldCase(c) == IF c \in 65..90 THEN c + 32 ELSE c

\* the length of the run of non-blank bytes s begins with
FirstWordLen(s) ==
    CHOOSE n \in 1..Len(s) :
       /\ \A k \in 1..n : ~IsBlank(s[k])
       /\ n = Len(s) \/ IsBlank(s[n + 1])

\* the words of s, each with its letters in lower case
RECURSIVE WordsOf(_)
WordsOf(s) ==
    IF Len(s) = 0 THEN <<>>
    ELSE IF IsBlank(s[1]) THEN WordsOf(SubSeq(s, 2, Len(s)))
    ELSE <<[k \in 1..FirstWordLen(s) |-> FoldCase(s[k])]>>
            \o WordsOf(SubSeq(s, FirstWordLen(s) + 1, Len(s)))

\* lines i < j with string texts of the same words and the same url member
SameTextPair(i, j) ==
    /\ i < j
    /\ input[i].text.type = "string"
    /\ input[j].text.type = "string"
    /\ WordsOf(input[i].text.str) = WordsOf(input[j].text.str)
    /\ input[i].url = input[j].url

\* line j got the key of line i and was dropped as its duplicate
DroppedAsDuplicateOf(i, j) ==
    /\ LineKey(i) = LineKey(j)
    /\ j \notin FirstIdx
    /\ Len(input) = 2 =>
          /\ stats.written = 1
          /\ stats.duplicates = 1
          /\ OutLines = <<input[1]>>

\* the claim as stated, for every text
C16_SameTextSameKey ==
    \A i, j \in 1..Len(input) :
       SameTextPair(i, j) => DroppedAsDuplicateOf(i, j)

\* the claim for texts that hold at least one word
C16_SameWordsSameKey ==
    \A i, j \in 1..Len(input) :
       (SameTextPair(i, j) /\ WordsOf(input[i].text.str) # <<>>)
          => DroppedAsDuplicateOf(i, j)

\* the two lines of the scenario
C16_Witness ==
    /\ Len(input) = 2
    /\ input[1] = Object(0, Str(STR_BREAKING), Absent, Absent, Absent)
    /\ input[2] = Object(0, Str(STR_BREAKING_WIDE), Absent, Absent, Absent)
    /\ stats.written = 1
    /\ stats.duplicates = 1

(***************************************************************************)
(* C17 A line is counted as parsed, and can be written, only if it parses  *)
(*     as a structured record (a key-value mapping); a line that is valid  *)
(*     JSON but not an object is rejected like a malformed line: it is     *)
(*     counted in parse_errors and never appears in the output.            *)
(***************************************************************************)
C17_OnlyObjectsParsed ==
    /\ \A i \in ParsedIdx : input[i].kind = "object"
    /\ \A k \in 1..Len(out) : OutLines[k].kind = "object"
    /\ stats.parse_errors
          = Cardinality({i \in 1..Len(input) : input[i].kind \in {"malformed", "scalar"}})

(***************************************************************************)
(* C18 In single-file mode of jsonl_dedup, when an explicit input path is  *)
(*     given that exists and can be opened and the output location can be  *)
(*     prepared, the file is processed and the process exits with status   *)
(*     0, whether or not the default directories data_crawl or             *)
(*     data_preprocessed exist in the working directory.                   *)
(***************************************************************************)
C18_ExplicitInputNeedsNoDefaults ==
    (/\ argv.form = "single"
     /\ argv.p1 # NoPath
     /\ fs_state.file = "ok"
     /\ mpc = "exit")
        => /\ exit_code = 0
           /\ Calls # {}
           /\ \A k \in Calls : results[k].success

(***************************************************************************)
(* C19 The observed-key set starts empty for each stream, only grows (no   *)
(*     key is ever removed), and after every fully processed line its size *)
(*     equals the written counter and the number of lines emitted so far;  *)
(*     it changes only when a parsed line is written.                      *)
(***************************************************************************)
C19_SetSize ==
    /\ input = <<>> => seen_keys = {}
    /\ Cardinality(seen_keys) = stats.written
    /\ Cardinality(seen_keys) = Len(out)

C19_SetStep ==
    /\ seen_keys \subseteq seen_keys'
    /\ seen_keys' # seen_keys =>
          /\ ParseOk(LastLine(input'))
          /\ Cardinality(seen_keys') = Cardinality(seen_keys) + 1
          /\ stats'.written = stats.written + 1
          /\ Len(out') = Len(out) + 1
          /\ OutLines'[Len(out')] = LastLine(input')
    /\ (Len(input') = Len(input) + 1 /\ seen_keys' = seen_keys) =>
          /\ out' = out
          /\ stats'.written = stats.written

C19_ObservedSetGrowsWithWritten ==
    []C19_SetSize /\ [][C19_SetStep]_vars

\* a key observed, then a duplicate and a malformed line that left the set
\* as it was
C19_Witness ==
    /\ Len(input) = 3
    /\ Cardinality(seen_keys) = 1
    /\ stats.written = 1
    /\ stats.duplicates = 1
    /\ stats.parse_errors = 1

(***************************************************************************)
(* C20 Keys are unambiguous across derivation rules: two records receive   *)
(*     the same dedup key only if the same rule (text alone, text+url,     *)
(*     title alone, title+url, url-only, id, positional) produced both     *)
(*     keys from equal normalized field values; a key produced by one rule *)
(*     never equals a key produced by a different rule.                    *)
(***************************************************************************)
\* the rule that gives record r its key
RuleOf(r) ==
    IF TextNorm(r) # <<>>
    THEN IF Len(TextNorm(r)) < ShortTextLimit /\ UrlNorm(r) # <<>>
         THEN "text+url" ELSE "text"
    ELSE IF TitleNorm(r) # <<>>
    THEN IF UrlNorm(r) # <<>> THEN "title+url" ELSE "title"
    ELSE IF UrlNorm(r) # <<>> THEN "url"
    ELSE IF r.kind = "object" /\ r.id.type = "string" THEN "id"
    ELSE "positional"

\* the field values that rule reads, for the i-th line
RuleValues(i) ==
    LET r == input[i] IN
    CASE RuleOf(r) = "text" -> <<TextNorm(r)>>
      [] RuleOf(r) = "text+url" -> <<TextNorm(r), UrlNorm(r)>>
      [] RuleOf(r) = "title" -> <<TitleNorm(r)>>
      [] RuleOf(r) = "title+url" -> <<TitleNorm(r), UrlNorm(r)>>
      [] RuleOf(r) = "url" -> <<UrlNorm(r)>>
      [] RuleOf(r) = "id" -> <<r.id.str>>
      [] RuleOf(r) = "positional" -> <<i>>

C20_KeysUnambiguousAcrossRules ==
    \A i, j \in ParsedIdx :
       (i < j /\ LineKey(i) = LineKey(j)) =>
          /\ RuleOf(input[i]) = RuleOf(input[j])
          /\ RuleValues(i) = RuleValues(j)

====
